---- MODULE Spec2Model ----
(* Model of beehive's central module system (bees/bees.go): the bee       *)
(* registry, the supervised run-task of every bee (startBee), the event   *)
(* dispatcher (handleEvents) and the control operations StartBee,         *)
(* StartBees, StopBees, RestartBee, RestartBees and DeleteBee.            *)
EXTENDS Integers, Sequences, FiniteSets, TLC

(* ---------------------------------------------------------------------- *)
(* Bounds of the model                                                    *)
(* ---------------------------------------------------------------------- *)
MaxTasks == 2     \* supervision goroutines ever launched (Spec)
MaxChans == 2     \* event channels ever made, line 112 included (Spec)
MaxEvents == 2    \* event submissions ever attempted
MaxOps == 2       \* control operations ever called (Spec)
MaxList == 1      \* length of a descriptor list given to StartBees
SupTasks == 2     \* supervision goroutines ever launched (SpecSup)
SupOps == 3       \* control operations ever called (SpecSup)
GenTasks == 1     \* supervision goroutines ever launched (SpecGen)
GenOps == 2       \* control operations ever called (SpecGen)
GenChans == 3     \* event channels ever made (SpecGen)

(* ---------------------------------------------------------------------- *)
(* Program constants                                                      *)
(* ---------------------------------------------------------------------- *)
MaxFatals == 3    \* startBee: if fatals >= 3 { ... return }

Names == {"a", "b"}                 \* bee identifiers used by descriptors
factories == {"exec"}               \* classes with a registered factory
ClassIds == factories \cup {"bogus"}
Descs == [Name : Names, Class : ClassIds]
NoBee == 0                          \* the nil *BeeInterface

VARIABLES
  eventsIn,    \* the channel the global eventsIn currently refers to
  chanClosed,  \* chanClosed[c]: channel c has been closed
  bees,        \* the registry: identifier -> bee object (NoBee = absent)
  objs,        \* the bee objects: Running, SigChan closed, WaitGroup count
  tasks,       \* the supervision goroutines (go startBee(mod, 0))
  disp,        \* the dispatcher goroutines (go handleEvents())
  events,      \* every event submission attempted so far
  execs,       \* the chain-execution goroutines launched by dispatchers
  lastOp,      \* the last control operation called and its outcome
  aborted,     \* an unrecovered panic has ended the process
  cap          \* the bounds of the specification being checked

vars == <<eventsIn, chanClosed, bees, objs, tasks, disp, events, execs,
          lastOp, aborted, cap>>

(* ---------------------------------------------------------------------- *)
(* The Bee base struct                                                    *)
(* ---------------------------------------------------------------------- *)
\* NewBee: fresh SigChan, fresh WaitGroup with Add(1); Running is false.
NewBee(name) ==
  [name |-> name, Running |-> FALSE, sigClosed |-> FALSE, wg |-> 1]

\* Start(): sets the running flag.
Start(b) == [b EXCEPT !.Running = TRUE]

\* Stop(): signals the stop signal and clears the running flag.
Stop(b) == [b EXCEPT !.Running = FALSE, !.sigClosed = TRUE]

\* IsRunning(): the running flag.
IsRunning(b) == b.Running

\* SetSigChan(make(chan bool)): a fresh, open stop signal.
SetSigChan(b) == [b EXCEPT !.sigClosed = FALSE]

\* WaitGroup().Add(1) / WaitGroup().Done(): the counter moves first, and
\* the call panics afterwards when the counter has become negative.
WaitGroupAdd(b) == [b EXCEPT !.wg = @ + 1]
WaitGroupDone(b) == [b EXCEPT !.wg = @ - 1]
WaitGroupPanics(b) == b.wg < 0

(* ---------------------------------------------------------------------- *)
(* The registry                                                           *)
(* ---------------------------------------------------------------------- *)
\* A registry that keeps the entry an identifier already has.
RegisterBeeFirstWins(bs, name, o) ==
  IF bs[name] # NoBee THEN bs ELSE [bs EXCEPT ![name] = o]

\* bees[bee.Name()] = &bee
RegisterBee(bs, name, o) == [bs EXCEPT ![name] = o]

\* GetBee: the registered bee, or nil.
GetBee(identifier) == bees[identifier]

\* GetBees: all registered bees.
GetBees(bs) == {bs[n] : n \in {m \in Names : bs[m] # NoBee}}

\* GetFactory: the factory of a class, or nil (FALSE).
GetFactory(class) == class \in factories

Registered(o) == o \in 1..Len(objs) /\ bees[objs[o].name] = o

(* ---------------------------------------------------------------------- *)
(* Goroutines                                                             *)
(* ---------------------------------------------------------------------- *)
\* go func(mod) { startBee(mod, 0) }(b). ch is the channel the current
\* call of Run was given, ev the event of the send Run is blocked in,
\* home the channel eventsIn referred to when the goroutine was launched.
NewTask(o, c) ==
  [bee |-> o, fatals |-> 0, pc |-> "start", ch |-> 0, runs |-> 0,
   ret |-> FALSE, ev |-> 0, home |-> c]

\* go handleEvents()
NewDisp == [pc |-> "load", ch |-> 0, ev |-> 0]

Op(name, out, o, class, prev, beeList) ==
  [n |-> lastOp.n + 1, op |-> name, out |-> out, bee |-> o,
   class |-> class, prev |-> prev, list |-> beeList]

\* The state of the package when its variables are initialised.
Loaded ==
  /\ eventsIn = 1
  /\ chanClosed = <<FALSE>>
  /\ bees = [n \in Names |-> NoBee]
  /\ objs = <<>>
  /\ tasks = <<>>
  /\ disp = <<>>
  /\ events = <<>>
  /\ execs = <<>>
  /\ lastOp = [n |-> 0, op |-> "init", out |-> "ok", bee |-> NoBee,
               class |-> "", prev |-> {}, list |-> <<>>]
  /\ aborted = FALSE

Init ==
  Loaded /\ cap = [ops |-> MaxOps, tasks |-> MaxTasks, chans |-> MaxChans]

InitSup ==
  Loaded /\ cap = [ops |-> SupOps, tasks |-> SupTasks, chans |-> MaxChans]

InitGen ==
  Loaded /\ cap = [ops |-> GenOps, tasks |-> GenTasks, chans |-> GenChans]

\* Nothing runs once an unrecovered panic has ended the process.
Alive == ~aborted

(* ---------------------------------------------------------------------- *)
(* startBee: the supervised run-task                                      *)
(* ---------------------------------------------------------------------- *)
\* startBee with the limit test written > instead of >=.
startBeeOneMore(tk, fatals) ==
  IF fatals > MaxFatals
    THEN [tk EXCEPT !.pc = "evil", !.fatals = fatals]
    ELSE [tk EXCEPT !.pc = "run", !.fatals = fatals, !.ch = eventsIn,
                    !.runs = @ + 1]

\* startBee giving up one failure early.
startBeeOneLess(tk, fatals) ==
  IF fatals >= MaxFatals - 1
    THEN [tk EXCEPT !.pc = "evil", !.fatals = fatals]
    ELSE [tk EXCEPT !.pc = "run", !.fatals = fatals, !.ch = eventsIn,
                    !.runs = @ + 1]

\* startBee(bee, fatals): give up at 3 fatals, else call Run(eventsIn)
\* with the channel the global eventsIn refers to at this moment.
startBee(tk, fatals) ==
  IF fatals >= MaxFatals
    THEN [tk EXCEPT !.pc = "evil", !.fatals = fatals]
    ELSE [tk EXCEPT !.pc = "run", !.fatals = fatals, !.ch = eventsIn,
                    !.runs = @ + 1]

\* The goroutine launched by StartBee or RestartBee begins:
\* startBee(mod, 0).
TaskBegins(t) ==
  /\ Alive
  /\ tasks[t].pc = "start"
  /\ tasks' = [tasks EXCEPT ![t] = startBee(@, 0)]
  /\ UNCHANGED <<eventsIn, chanClosed, bees, objs, disp, events, execs,
                 lastOp, aborted, cap>>

\* The deferred recover(): non-nil after a panic, and then
\* startBee(bee, fatals+1) is called at once.
Recovered(tk) == startBee(tk, tk.fatals + 1)

\* A supervision that removes from the registry the bee it gives up on.
RunPanicsUnregisters(t) ==
  /\ Alive
  /\ tasks[t].pc = "run"
  /\ objs' = [objs EXCEPT ![tasks[t].bee] = WaitGroupDone(@)]
  /\ tasks' = [tasks EXCEPT ![t] = Recovered(@)]
  /\ bees' = IF Recovered(tasks[t]).pc = "evil"
               THEN [bees EXCEPT ![objs[tasks[t].bee].name] = NoBee]
               ELSE bees
  /\ UNCHANGED <<eventsIn, chanClosed, disp, events, execs, lastOp,
                 aborted, cap>>

\* Run panics: the deferred Done() runs, then the deferred recover.
RunPanics(t) ==
  /\ Alive
  /\ tasks[t].pc = "run"
  /\ objs' = [objs EXCEPT ![tasks[t].bee] = WaitGroupDone(@)]
  /\ tasks' = [tasks EXCEPT ![t] = Recovered(@)]
  /\ UNCHANGED <<eventsIn, chanClosed, bees, disp, events, execs, lastOp,
                 aborted, cap>>

\* Run returns: the deferred Done() runs; when Done() itself panics
\* (negative counter) the deferred recover sees that panic.
Returned(tk, b) ==
  IF WaitGroupPanics(b)
    THEN Recovered([tk EXCEPT !.ret = TRUE])
    ELSE [tk EXCEPT !.pc = "done", !.ret = TRUE]

RunReturns(t) ==
  /\ Alive
  /\ tasks[t].pc = "run"
  /\ LET b == WaitGroupDone(objs[tasks[t].bee]) IN
       /\ objs' = [objs EXCEPT ![tasks[t].bee] = b]
       /\ tasks' = [tasks EXCEPT ![t] = Returned(@, b)]
  /\ UNCHANGED <<eventsIn, chanClosed, bees, disp, events, execs, lastOp,
                 aborted, cap>>

\* Run executes a send on the channel it was given. The channel is
\* unbuffered (make(chan Event)). events lists the sends in the order
\* they were executed; ok tells whether the event was received, and rx
\* is its position among the received events.
Received == {e \in 1..Len(events) : events[e].ok}

NewEvent(t, delivered) ==
  [Bee |-> objs[tasks[t].bee].name, ch |-> tasks[t].ch, ok |-> delivered,
   task |-> t, rx |-> IF delivered THEN Cardinality(Received) + 1 ELSE 0]

\* The dispatchers blocked in <-eventsIn on channel c.
Receivers(c) ==
  {d \in 1..Len(disp) : disp[d].pc = "recv" /\ disp[d].ch = c}

\* A dispatcher is blocked receiving on the channel: the send completes
\* at once and the dispatcher resumes with the event.
RunSends(t, d) ==
  /\ Alive
  /\ tasks[t].pc = "run"
  /\ Len(events) < MaxEvents
  /\ ~chanClosed[tasks[t].ch]
  /\ d \in Receivers(tasks[t].ch)
  /\ events' = Append(events, NewEvent(t, TRUE))
  /\ disp' = [disp EXCEPT ![d].pc = "handle", ![d].ev = Len(events) + 1]
  /\ UNCHANGED <<eventsIn, chanClosed, bees, objs, tasks, execs, lastOp,
                 aborted, cap>>

\* No dispatcher is receiving on the channel: the sending goroutine
\* blocks in the send.
RunSubmits(t) ==
  /\ Alive
  /\ tasks[t].pc = "run"
  /\ Len(events) < MaxEvents
  /\ ~chanClosed[tasks[t].ch]
  /\ Receivers(tasks[t].ch) = {}
  /\ events' = Append(events, NewEvent(t, FALSE))
  /\ tasks' = [tasks EXCEPT ![t].pc = "send", ![t].ev = Len(events) + 1]
  /\ UNCHANGED <<eventsIn, chanClosed, bees, objs, disp, execs, lastOp,
                 aborted, cap>>

\* The events of the senders blocked on channel c, and the one a receive
\* takes: the senders blocked on a channel are served in the order in
\* which they blocked.
Blocked(c) ==
  {tasks[t].ev : t \in {x \in 1..Len(tasks) :
                          tasks[x].pc = "send" /\ tasks[x].ch = c}}

\* A receive that serves the sender that blocked last.
SendqLast(c) == CHOOSE e \in Blocked(c) : \A f \in Blocked(c) : f <= e

SendqHead(c) == CHOOSE e \in Blocked(c) : \A f \in Blocked(c) : e <= f

\* A send on a closed channel panics inside Run: nothing is delivered.
RunSendsClosed(t) ==
  /\ Alive
  /\ tasks[t].pc = "run"
  /\ Len(events) < MaxEvents
  /\ chanClosed[tasks[t].ch]
  /\ events' = Append(events, NewEvent(t, FALSE))
  /\ objs' = [objs EXCEPT ![tasks[t].bee] = WaitGroupDone(@)]
  /\ tasks' = [tasks EXCEPT ![t] = Recovered(@)]
  /\ UNCHANGED <<eventsIn, chanClosed, bees, disp, execs, lastOp, aborted, cap>>

\* close(eventsIn) wakes a sender blocked on the channel with a panic.
SendPanics(t) ==
  /\ Alive
  /\ tasks[t].pc = "send"
  /\ chanClosed[tasks[t].ch]
  /\ objs' = [objs EXCEPT ![tasks[t].bee] = WaitGroupDone(@)]
  /\ tasks' = [tasks EXCEPT ![t] = Recovered([@ EXCEPT !.ev = 0])]
  /\ UNCHANGED <<eventsIn, chanClosed, bees, disp, events, execs, lastOp,
                 aborted, cap>>

(* ---------------------------------------------------------------------- *)
(* handleEvents: the dispatcher                                           *)
(* ---------------------------------------------------------------------- *)
\* Top of the loop: the expression <-eventsIn reads the global eventsIn
\* and receives from that channel. With no sender blocked on it (or with
\* the channel closed) the goroutine blocks in the receive.
HandleLoad(d) ==
  /\ Alive
  /\ disp[d].pc = "load"
  /\ chanClosed[eventsIn] \/ Blocked(eventsIn) = {}
  /\ disp' = [disp EXCEPT ![d].pc = "recv", ![d].ch = eventsIn]
  /\ UNCHANGED <<eventsIn, chanClosed, bees, objs, tasks, events, execs,
                 lastOp, aborted, cap>>

\* Top of the loop with senders blocked on the channel: the receive takes
\* the event of the first of them, and that sender resumes inside Run.
Taken(e) ==
  [events EXCEPT ![e].ok = TRUE, ![e].rx = Cardinality(Received) + 1]

HandleTakes(d) ==
  /\ Alive
  /\ disp[d].pc = "load"
  /\ ~chanClosed[eventsIn]
  /\ Blocked(eventsIn) # {}
  /\ LET e == SendqHead(eventsIn) IN
       /\ events' = Taken(e)
       /\ tasks' = [tasks EXCEPT ![events[e].task].pc = "run",
                                 ![events[e].task].ev = 0]
       /\ disp' = [disp EXCEPT ![d].pc = "handle", ![d].ch = eventsIn,
                               ![d].ev = e]
  /\ UNCHANGED <<eventsIn, chanClosed, bees, objs, execs, lastOp, aborted,
                 cap>>

\* event, ok := <-eventsIn with ok = false: break.
HandleClosed(d) ==
  /\ Alive
  /\ disp[d].pc = "recv"
  /\ chanClosed[disp[d].ch]
  /\ disp' = [disp EXCEPT ![d].pc = "stopped"]
  /\ UNCHANGED <<eventsIn, chanClosed, bees, objs, tasks, events, execs,
                 lastOp, aborted, cap>>

\* handleEvents without the go statement: the event is logged and dropped.
HandleDispatchDrop(d) ==
  /\ Alive
  /\ disp[d].pc = "handle"
  /\ IF GetBee(events[disp[d].ev].Bee) = NoBee
       THEN /\ aborted' = TRUE
            /\ disp' = [disp EXCEPT ![d].pc = "crashed"]
       ELSE /\ disp' = [disp EXCEPT ![d].pc = "load", ![d].ev = 0]
            /\ UNCHANGED aborted
  /\ UNCHANGED <<eventsIn, chanClosed, bees, objs, tasks, events, execs,
                 lastOp, cap>>

\* bee := GetBee(event.Bee); (*bee).LogEvent(); go func() {execChains}().
\* A nil bee makes (*bee).LogEvent() panic; handleEvents has no recover,
\* so the panic ends the process.
NewExec(ev) == [ev |-> ev, st |-> "active"]

HandleDispatch(d) ==
  /\ Alive
  /\ disp[d].pc = "handle"
  /\ IF GetBee(events[disp[d].ev].Bee) = NoBee
       THEN /\ aborted' = TRUE
            /\ disp' = [disp EXCEPT ![d].pc = "crashed"]
            /\ UNCHANGED execs
       ELSE /\ execs' = Append(execs, NewExec(disp[d].ev))
            /\ disp' = [disp EXCEPT ![d].pc = "load", ![d].ev = 0]
            /\ UNCHANGED aborted
  /\ UNCHANGED <<eventsIn, chanClosed, bees, objs, tasks, events, lastOp, cap>>

\* execChains(&event) returns, or panics and is recovered and logged.
ExecReturns(i) ==
  /\ Alive
  /\ execs[i].st = "active"
  /\ execs' = [execs EXCEPT ![i].st = "done"]
  /\ UNCHANGED <<eventsIn, chanClosed, bees, objs, tasks, disp, events,
                 lastOp, aborted, cap>>

\* execChains panicking in a goroutine that has no deferred recover: the
\* panic ends the process.
ExecPanicsUnrecovered(i) ==
  /\ Alive
  /\ execs[i].st = "active"
  /\ execs' = [execs EXCEPT ![i].st = "failed"]
  /\ aborted' = TRUE
  /\ UNCHANGED <<eventsIn, chanClosed, bees, objs, tasks, disp, events,
                 lastOp, cap>>

ExecPanics(i) ==
  /\ Alive
  /\ execs[i].st = "active"
  /\ execs' = [execs EXCEPT ![i].st = "failed"]
  /\ UNCHANGED <<eventsIn, chanClosed, bees, objs, tasks, disp, events,
                 lastOp, aborted, cap>>

(* ---------------------------------------------------------------------- *)
(* Control operations                                                     *)
(* ---------------------------------------------------------------------- *)
\* The part of the state the control operations write, with the outcome
\* of the call so far: "ok", or "panic" when the call panicked.
Ctl == [bees |-> bees, objs |-> objs, tasks |-> tasks, disp |-> disp,
        eventsIn |-> eventsIn, chanClosed |-> chanClosed, out |-> "ok"]

\* NewBeeInstance without the test of the factory.
NewBeeInstanceUnchecked(cs, d) ==
  [cs EXCEPT !.objs = Append(@, NewBee(d.Name)),
             !.bees = RegisterBee(@, d.Name, Len(cs.objs) + 1)]

\* NewBeeInstance: panic on an unknown class, else New and RegisterBee.
NewBeeInstance(cs, d) ==
  IF ~GetFactory(d.Class)
    THEN [cs EXCEPT !.out = "panic"]
    ELSE [cs EXCEPT !.objs = Append(@, NewBee(d.Name)),
                    !.bees = RegisterBee(@, d.Name, Len(cs.objs) + 1)]

\* StartBee: NewBeeInstance, Start, go startBee(mod, 0).
StartBeeOn(cs, d) ==
  LET c1 == NewBeeInstance(cs, d) IN
    IF c1.out = "panic"
      THEN c1
      ELSE [c1 EXCEPT !.objs[Len(c1.objs)] = Start(@),
                      !.tasks = Append(@, NewTask(Len(c1.objs), c1.eventsIn))]

RECURSIVE StartAll(_, _)
StartAll(cs, beeList) ==
  IF beeList = <<>> \/ cs.out = "panic"
    THEN cs
    ELSE StartAll(StartBeeOn(cs, Head(beeList)), Tail(beeList))

\* StartBees: eventsIn = make(chan Event); go handleEvents(); StartBee
\* for each descriptor (a panic of one StartBee ends the loop).
StartBeesOn(cs, beeList) ==
  StartAll([cs EXCEPT !.chanClosed = Append(@, FALSE),
                      !.eventsIn = Len(cs.chanClosed) + 1,
                      !.disp = Append(@, NewDisp)],
           beeList)

\* StopBees without the loop that stops the bees.
StopBeesOnNoStop(cs) ==
  IF cs.chanClosed[cs.eventsIn]
    THEN [cs EXCEPT !.out = "panic"]
    ELSE [cs EXCEPT !.chanClosed[cs.eventsIn] = TRUE,
                    !.bees = [n \in Names |-> NoBee]]

\* StopBees: Stop every registered bee, close(eventsIn), empty the
\* registry. close of a closed channel panics before the registry is
\* replaced.
StopBeesOn(cs) ==
  LET stopped == [o \in 1..Len(cs.objs) |->
                    IF o \in GetBees(cs.bees) THEN Stop(cs.objs[o])
                                              ELSE cs.objs[o]]
  IN IF cs.chanClosed[cs.eventsIn]
       THEN [cs EXCEPT !.objs = stopped, !.out = "panic"]
       ELSE [cs EXCEPT !.objs = stopped,
                       !.chanClosed[cs.eventsIn] = TRUE,
                       !.bees = [n \in Names |-> NoBee]]

\* RestartBee: Stop, SetSigChan(make(chan bool)), WaitGroup().Add(1),
\* Start, go startBee(mod, 0). Add panics on a negative counter.
RestartBeeOn(cs, o) ==
  LET b == WaitGroupAdd(SetSigChan(Stop(cs.objs[o]))) IN
    IF WaitGroupPanics(b)
      THEN [cs EXCEPT !.objs[o] = b, !.out = "panic"]
      ELSE [cs EXCEPT !.objs[o] = Start(b),
                      !.tasks = Append(@, NewTask(o, cs.eventsIn))]

\* DeleteBee: Stop, delete(bees, (*bee).Name()).
DeleteBeeOn(cs, o) ==
  [cs EXCEPT !.objs[o] = Stop(@), !.bees[cs.objs[o].name] = NoBee]

\* RestartBees: StopBees(); StartBees(bees).
RestartBeesOn(cs, beeList) ==
  LET c1 == StopBeesOn(cs) IN
    IF c1.out = "panic" THEN c1 ELSE StartBeesOn(c1, beeList)

\* A control operation is one step of the single control path.
Call(name, cs, o, class, prev, beeList) ==
  /\ Alive
  /\ lastOp.n < cap.ops
  /\ Len(cs.tasks) <= cap.tasks
  /\ Len(cs.chanClosed) <= cap.chans
  /\ bees' = cs.bees
  /\ objs' = cs.objs
  /\ tasks' = cs.tasks
  /\ disp' = cs.disp
  /\ eventsIn' = cs.eventsIn
  /\ chanClosed' = cs.chanClosed
  /\ lastOp' = Op(name, cs.out, o, class, prev, beeList)
  /\ UNCHANGED <<events, execs, aborted, cap>>

BeeLists == UNION {[1..n -> Descs] : n \in 0..MaxList}

StartBee(d) ==
  Call("StartBee", StartBeeOn(Ctl, d), NoBee, d.Class, {}, <<d>>)

StartBees(beeList) ==
  Call("StartBees", StartBeesOn(Ctl, beeList), NoBee, "", {}, beeList)

StopBees ==
  Call("StopBees", StopBeesOn(Ctl), NoBee, "", GetBees(bees), <<>>)

RestartBee(o) ==
  /\ Registered(o)
  /\ Call("RestartBee", RestartBeeOn(Ctl, o), o, "", {}, <<>>)

DeleteBee(o) ==
  /\ Registered(o)
  /\ Call("DeleteBee", DeleteBeeOn(Ctl, o), o, "", {}, <<>>)

\* RegisterBee called directly with a bee the caller has constructed.
RegisterBeeOn(cs, name) ==
  [cs EXCEPT !.objs = Append(@, NewBee(name)),
             !.bees = RegisterBee(@, name, Len(cs.objs) + 1)]

CallRegisterBee(name) ==
  Call("RegisterBee", RegisterBeeOn(Ctl, name), Len(objs) + 1, "", {}, <<>>)

RestartBees(beeList) ==
  Call("RestartBees", RestartBeesOn(Ctl, beeList), NoBee, "",
       GetBees(bees), beeList)

Next ==
  \/ \E t \in 1..Len(tasks) : TaskBegins(t)
  \/ \E t \in 1..Len(tasks) : RunPanics(t)
  \/ \E t \in 1..Len(tasks) : RunReturns(t)
  \/ \E t \in 1..Len(tasks) : RunSubmits(t)
  \/ \E t \in 1..Len(tasks) : \E d \in 1..Len(disp) : RunSends(t, d)
  \/ \E t \in 1..Len(tasks) : RunSendsClosed(t)
  \/ \E t \in 1..Len(tasks) : SendPanics(t)
  \/ \E d \in 1..Len(disp) : HandleLoad(d)
  \/ \E d \in 1..Len(disp) : HandleTakes(d)
  \/ \E d \in 1..Len(disp) : HandleClosed(d)
  \/ \E d \in 1..Len(disp) : HandleDispatch(d)
  \/ \E i \in 1..Len(execs) : ExecReturns(i)
  \/ \E i \in 1..Len(execs) : ExecPanics(i)
  \/ \E d \in Descs : StartBee(d)
  \/ \E l \in BeeLists : StartBees(l)
  \/ StopBees
  \/ \E o \in 1..Len(objs) : RestartBee(o)
  \/ \E o \in 1..Len(objs) : DeleteBee(o)
  \/ \E n \in Names : CallRegisterBee(n)
  \/ \E l \in BeeLists : RestartBees(l)

Spec == Init /\ [][Next]_vars

\* The same program with room for a third channel: two bus starts after
\* the channel made at load time.
SpecGen == InitGen /\ [][Next]_vars

\* The supervision of the bees alone: the control operations that do not
\* make a channel, and the supervised run-tasks without their events.
NextSup ==
  \/ \E t \in 1..Len(tasks) : TaskBegins(t)
  \/ \E t \in 1..Len(tasks) : RunPanics(t)
  \/ \E t \in 1..Len(tasks) : RunReturns(t)
  \/ \E d \in Descs : StartBee(d)
  \/ StopBees
  \/ \E o \in 1..Len(objs) : RestartBee(o)
  \/ \E o \in 1..Len(objs) : DeleteBee(o)
  \/ \E n \in Names : CallRegisterBee(n)

SpecSup == InitSup /\ [][NextSup]_vars

(* ---------------------------------------------------------------------- *)
(* Properties                                                             *)
(* ---------------------------------------------------------------------- *)
Tasks == 1..Len(tasks)
Objs == 1..Len(objs)
ControlStep == lastOp'.n # lastOp.n

\* The events a dispatcher has received, the ones a dispatcher holds
\* between its receive and its go statement, and the ones for which a
\* chain-execution task has been launched.
Delivered == Received
Held == {disp[d].ev : d \in {x \in 1..Len(disp) : disp[x].pc = "handle"}}
Launched == {execs[i].ev : i \in 1..Len(execs)}
Producers == {events[e].Bee : e \in Delivered}

\* C1: a supervision chain invokes Run at most 3 times; once 3 attempts
\* have failed the chain has ended and Run is not invoked a 4th time.
C1_AtMostThreeRuns ==
  \A t \in Tasks :
    /\ tasks[t].runs <= 3
    /\ tasks[t].fatals >= 3 => tasks[t].pc = "evil" /\ tasks[t].runs = 3

C1_Witness ==
  \E t \in Tasks :
    tasks[t].pc = "evil" /\ tasks[t].runs = 3 /\ ~tasks[t].ret

\* C2: once Run has returned normally on some attempt of a chain (its
\* completion handle marked done by the deferred Done), the chain has
\* ended: the return is not taken for a failure and Run is not invoked
\* again.
C2_NormalReturnEndsChain ==
  \A t \in Tasks : tasks[t].ret => tasks[t].pc = "done"

\* C3: after Run has failed on attempts 1 and 2 of a chain and as long as
\* attempt 3 has neither failed nor returned, the run-loop is active, Run
\* has been invoked exactly 3 times (2 retries) and the bee is not given
\* up.
C3_ThirdAttemptRuns ==
  \A t \in Tasks :
    (tasks[t].fatals = 2 /\ ~tasks[t].ret) =>
      (tasks[t].pc = "run" /\ tasks[t].runs = 3)

C3_Witness ==
  \E t \in Tasks :
    tasks[t].fatals = 2 /\ ~tasks[t].ret /\ tasks[t].pc = "run"

\* C4: as long as the bees that have submitted events are registered,
\* every event received is either held by the dispatcher that received it
\* or has exactly one chain-execution task, launched with that event; no
\* task exists for anything else.
C4_OneExecPerEvent ==
  (\A n \in Producers : GetBee(n) # NoBee) =>
    /\ Launched \cup Held = Delivered
    /\ Launched \cap Held = {}
    /\ Cardinality(Launched) = Len(execs)

C4_Witness ==
  /\ Len(execs) = 2
  /\ Cardinality(Producers) = 2
  /\ \A n \in Producers : GetBee(n) # NoBee
  /\ Held = {}

\* C5: no dispatcher fails, whatever event it has received.
C5_DispatcherNeverFails ==
  \A d \in 1..Len(disp) : disp[d].pc # "crashed"

\* C6: after StopBees has completed, the registry is empty and every bee
\* that was registered when it was called has been stopped and reports
\* IsRunning() = false.
C6_StopBeesStopsAll ==
  (lastOp.op = "StopBees" /\ lastOp.out = "ok") =>
    /\ GetBees(bees) = {}
    /\ \A o \in lastOp.prev :
         ~IsRunning(objs[o]) /\ objs[o].sigClosed

C6_Witness ==
  /\ lastOp.op = "StopBees"
  /\ lastOp.out = "ok"
  /\ \E o \in lastOp.prev : \E t \in Tasks :
       tasks[t].bee = o /\ tasks[t].pc = "evil"
  /\ \E o \in lastOp.prev : \E t \in Tasks :
       tasks[t].bee = o /\ tasks[t].pc = "run"

\* C7: an event submitted on a closed channel is never received nor
\* executed, and for a closed channel whose events are no longer held by
\* a running dispatcher the number of chain-execution tasks equals the
\* number of events received on it.
OnChan(c) == {e \in Delivered : events[e].ch = c}

C7_ClosedBusDeliversNothing ==
  /\ \A e \in 1..Len(events) :
       ~events[e].ok => e \notin (Held \cup Launched)
  /\ \A c \in 1..Len(chanClosed) :
       (chanClosed[c] /\ OnChan(c) \cap Held = {}) =>
         Cardinality(OnChan(c) \cap Launched) = Cardinality(OnChan(c))

\* C8: StartBee with a class that has no factory ends in a panic and
\* leaves the registry, the bees and the supervision tasks as they were;
\* StartBee with a known class ends normally with one more bee.
C8_UnknownClassIsFatal ==
  [][(ControlStep /\ lastOp'.op = "StartBee") =>
       IF GetFactory(lastOp'.class)
         THEN lastOp'.out = "ok" /\ Len(objs') = Len(objs) + 1
         ELSE /\ lastOp'.out = "panic"
              /\ bees' = bees
              /\ objs' = objs
              /\ tasks' = tasks]_vars

C8_Witness ==
  /\ lastOp.op = "StartBee"
  /\ ~GetFactory(lastOp.class)
  /\ lastOp.out = "panic"
  /\ GetBees(bees) # {}

\* C9: a bee whose running flag is set has an active run-loop; in the
\* case the claim names, a bee given up after 3 failed attempts (and with
\* no other chain launched or inside Run) reports IsRunning() = false.
Active(o) ==
  \E t \in Tasks : tasks[t].bee = o /\ tasks[t].pc \in {"start", "run",
                                                     "send"}

GivenUp(o) ==
  \E t \in Tasks : tasks[t].bee = o /\ tasks[t].pc = "evil"

C9_AbandonedNotRunning ==
  \A o \in Objs : (GivenUp(o) /\ ~Active(o)) => ~IsRunning(objs[o])

\* C10: RestartBee on a registered bee completes without failing,
\* whatever the history of the bee.
C10_RestartBeeCompletes ==
  lastOp.op = "RestartBee" => lastOp.out = "ok"

\* C11: for every worker, the dispatchers receive the worker's events in
\* the order in which the worker submitted them: of two received events of
\* one bee, the one sent first was received first, whatever other bees
\* sent in between.
Worker(e) == tasks[events[e].task].bee

ExecFails(i) ==
  /\ i <= Len(execs)
  /\ execs[i].st = "active"
  /\ execs'[i].st = "failed"

C12_ExecFailureContained ==
  [][\A i \in 1..Len(execs') :
       ExecFails(i) =>
         /\ aborted' = aborted
         /\ disp' = disp
         /\ events' = events
         /\ <<eventsIn, chanClosed, bees, objs, tasks>>' =
              <<eventsIn, chanClosed, bees, objs, tasks>>
         /\ Len(execs') = Len(execs)
         /\ \A j \in 1..Len(execs) : j # i => execs'[j] = execs[j]]_vars

\* The execution of the first event failed; the event received after it
\* was dispatched and its execution completed, and a dispatcher is still
\* in its loop.
C12_Witness ==
  /\ Len(execs) = 2
  /\ execs[1].st = "failed"
  /\ execs[2].st = "done"
  /\ events[execs[1].ev].rx < events[execs[2].ev].rx
  /\ \E d \in 1..Len(disp) : disp[d].pc \in {"load", "recv"}
  /\ ~aborted

\* C13: the registry holds one entry per identifier. A registration
\* (RegisterBee called directly, or through StartBee) makes lookup of the
\* identifier return the bee just registered, leaves every other entry as
\* it was, and makes GetBees() one longer when the identifier was absent
\* and leaves its length unchanged when it was present; the length of
\* GetBees() is always the number of identifiers that have an entry.
Present(bs) == {n \in Names : bs[n] # NoBee}

Registers ==
  /\ ControlStep
  /\ lastOp'.op \in {"RegisterBee", "StartBee"}
  /\ lastOp'.out = "ok"

C13_OneEntryPerIdentifier ==
  [][Registers =>
       LET o == Len(objs')
           n == objs'[o].name
       IN /\ o = Len(objs) + 1
          /\ bees'[n] = o
          /\ \A m \in Names \ {n} : bees'[m] = bees[m]
          /\ Cardinality(GetBees(bees')) =
               Cardinality(GetBees(bees)) + (IF bees[n] = NoBee THEN 1 ELSE 0)
          /\ Cardinality(GetBees(bees')) = Cardinality(Present(bees'))]_vars

\* Three registrations of two distinct identifiers: the registry has two
\* entries and the identifier registered twice resolves to the later bee.
C13_Witness ==
  /\ lastOp.op = "RegisterBee"
  /\ lastOp.n = 3
  /\ Cardinality(GetBees(bees)) = 2
  /\ GetBee(objs[lastOp.bee].name) = lastOp.bee
  /\ \E o \in Objs : /\ o # lastOp.bee
                     /\ objs[o].name = objs[lastOp.bee].name
                     /\ ~Registered(o)

\* C14: after RestartBees(beeList) with every descriptor naming a known
\* factory class, the registry holds exactly the bees the descriptors
\* name and none of the previous set, each of them is started and has a
\* supervision goroutine of its own at fatals = 0, the previous channel is
\* closed, and a dispatcher has been launched for a new, open channel.
AllKnown(beeList) ==
  \A k \in 1..Len(beeList) : GetFactory(beeList[k].Class)

ListNames(beeList) == {beeList[k].Name : k \in 1..Len(beeList)}

RestartedAll ==
  /\ Present(bees') = ListNames(lastOp'.list)
  /\ GetBees(bees') \cap lastOp'.prev = {}
  /\ \A o \in GetBees(bees') :
       /\ IsRunning(objs'[o])
       /\ Cardinality({t \in 1..Len(tasks') : tasks'[t].bee = o}) = 1
       /\ \A t \in 1..Len(tasks') :
            tasks'[t].bee = o => tasks'[t].fatals = 0 /\ tasks'[t].pc = "start"
  /\ chanClosed'[eventsIn]
  /\ eventsIn' = Len(chanClosed) + 1
  /\ ~chanClosed'[eventsIn']
  /\ Len(disp') = Len(disp) + 1
  /\ disp'[Len(disp')] = NewDisp

C14_RestartBeesReplacesAll ==
  [][(ControlStep /\ lastOp'.op = "RestartBees" /\ AllKnown(lastOp'.list))
       => RestartedAll]_vars


\* C15: after StopBees has closed the channel a dispatcher receives from,
\* that dispatcher observes the closure and leaves its loop. Stated on
\* the runs that have ended: a dispatcher whose channel is closed and
\* which can take no further step has left its loop through the break.
Ended(d) == aborted \/ disp[d].pc \in {"stopped", "crashed"}

C15_DispatcherExitsOnClose ==
  \A d \in 1..Len(disp) :
    (disp[d].ch # 0 /\ chanClosed[disp[d].ch] /\ Ended(d))
      => disp[d].pc = "stopped"


\* C16: every step of a supervised run-task (the goroutine beginning, a
\* failure of Run, the retry, the giving up, a normal return) leaves the
\* registry as it was: lookup and GetBees() return the same bees under
\* the same identifiers, the bee given up on included.
TaskStep == ~ControlStep /\ tasks' # tasks

C16_SupervisionKeepsRegistry ==
  [][TaskStep =>
       /\ bees' = bees
       /\ GetBees(bees') = GetBees(bees)
       /\ Len(objs') = Len(objs)
       /\ \A o \in Objs : objs'[o].name = objs[o].name]_vars

\* A bee given up on after 3 failures is still registered, next to
\* another registered bee.
C16_Witness ==
  /\ Cardinality(GetBees(bees)) = 2
  /\ \E t \in Tasks : /\ tasks[t].pc = "evil"
                      /\ tasks[t].fatals = 3
                      /\ GetBee(objs[tasks[t].bee].name) = tasks[t].bee

\* C17: at most one dispatcher receives from the current channel, and a
\* dispatcher launched for an earlier channel never receives from a later
\* one. The d-th dispatcher is launched by the d-th StartBees, right after
\* it has made channel d + 1.
Draining(c) ==
  {d \in 1..Len(disp) : disp[d].pc \in {"recv", "handle"} /\ disp[d].ch = c}

C17_OneDispatcherPerChannel ==
  /\ Cardinality(Draining(eventsIn)) <= 1
  /\ \A d \in 1..Len(disp) :
       disp[d].pc \in {"recv", "handle"} => disp[d].ch = d + 1

\* C18: for every bee the WaitGroup has never been marked done more often
\* than it was armed (once by NewBee, once by each RestartBee): its
\* counter is never negative, along the retry path included.
C18_WaitGroupNeverNegative ==
  \A o \in Objs : objs[o].wg >= 0

\* C19: for every bee at most one invocation of Run is active at any
\* time, whatever the interleaving of StartBee, failures and retries of
\* Run, Stop and RestartBee.
InRun(o) ==
  {t \in Tasks : tasks[t].bee = o /\ tasks[t].pc \in {"run", "send"}}

C19_OneRunPerBee ==
  \A o \in Objs : Cardinality(InRun(o)) <= 1

\* C20: once StopBees has completed, no attempt of Run is begun for a bee
\* that was registered when it was called, and every attempt of Run,
\* retries included, is given the channel that was current when its
\* supervision goroutine was launched.
Swept(t) ==
  /\ lastOp.op \in {"StopBees", "RestartBees"}
  /\ lastOp.out = "ok"
  /\ tasks[t].bee \in lastOp.prev

C20_NoRunAfterStopBees ==
  [][\A t \in Tasks :
       tasks'[t].runs > tasks[t].runs =>
         ~Swept(t) /\ tasks'[t].ch = tasks[t].home]_vars
====
